---- MODULE Spec2Model ----
(***************************************************************************)
(* A model of the interlog core: the transactional append pipeline         *)
(* (enqueue, commit), the bipartite circular read cache and the read path  *)
(* of core/src/log.rs, over byte buffers.  Buffers are sequences of bytes  *)
(* (1-based in TLA+, 0-based offsets in the code: byte offset o is element *)
(* o + 1).                                                                 *)
(***************************************************************************)
EXTENDS Integers, Sequences, FiniteSets, TLC

VARIABLES
    config,          \* Config: the four capacities, fixed at construction
    overflow_checks, \* the build: TRUE when usize arithmetic panics on overflow
    storage,         \* disk::Log: the bytes appended to storage so far
    byte_len,        \* Log.byte_len
    read_cache,      \* Log.read_cache: [mem, logical_start, a, b]
    key_index,       \* Log.key_index (live elements)
    txn_write_buf,   \* Log.txn_write_buf (live elements)
    disk_read_buf,   \* Log.disk_read_buf (live elements)
    res,             \* what the last enqueue or commit returned; "Panic" once
                     \* an operation has panicked
    n_enqueue,       \* number of enqueue calls so far
    n_append,        \* number of storage appends so far
    staged,          \* history: the payloads enqueue accepted into the batch
    committed,       \* history: the payloads of the commits that returned Ok
    first_failure,   \* history: "ReadCache" or "KeyIndex" once a commit has
                     \* returned that error (the first such), else "None"
    circ_buf,        \* a util::CircBuf: [buf, len, write_idx]
    pushed           \* history: the items pushed into circ_buf, oldest first

vars == <<config, overflow_checks, storage, byte_len, read_cache, key_index,
          txn_write_buf, disk_read_buf, res, n_enqueue, n_append,
          staged, committed, first_failure, circ_buf, pushed>>

\* The CircBuf and its history, which no operation of the log touches.
circ == <<circ_buf, pushed>>

----------------------------------------------------------------------------
\* Bounds of the model.

\* enqueue calls in one behaviour
MaxEnqueues == 3

\* storage appends (commits that reach the storage adapter) in one behaviour
MaxAppends == 3

\* b"I have known the arcane law" (27 bytes, on-disk size 64)
LAW ==
    <<73, 32, 104, 97, 118, 101, 32, 107, 110, 111, 119, 110, 32, 116, 104,
      101, 32, 97, 114, 99, 97, 110, 101, 32, 108, 97, 119>>

\* b"On strange roads, such visions met" (34 bytes, on-disk size 72)
ROADS ==
    <<79, 110, 32, 115, 116, 114, 97, 110, 103, 101, 32, 114, 111, 97, 100,
      115, 44, 32, 115, 117, 99, 104, 32, 118, 105, 115, 105, 111, 110,
      115, 32, 109, 101, 116>>

\* ReadCache::update calls in one behaviour of the cache on its own
MaxUpdates == 5

\* CircBuf::push calls in one behaviour of the circular buffer on its own
MaxPushes == 6

\* The payloads a caller enqueues: those of tests::log and a one-byte payload
\* (on-disk size 40).
Payloads == { LAW, ROADS, <<7>> }

\* The configurations a log is constructed with: that of tests::log, one with
\* small buffers (a key index of 2 entries, a write buffer of exactly two
\* 72-byte events, a disk read buffer smaller than the largest event), one
\* with no read cache and a write buffer of one event, and that of tests::log
\* with a disk read buffer smaller than the largest event.
Configs ==
    { [read_cache_capacity |-> 127, key_index_capacity |-> 65536,
       txn_write_buf_capacity |-> 512, disk_read_buf_capacity |-> 256],
      [read_cache_capacity |-> 100, key_index_capacity |-> 2,
       txn_write_buf_capacity |-> 144, disk_read_buf_capacity |-> 64],
      [read_cache_capacity |-> 0, key_index_capacity |-> 65536,
       txn_write_buf_capacity |-> 72, disk_read_buf_capacity |-> 256],
      [read_cache_capacity |-> 127, key_index_capacity |-> 65536,
       txn_write_buf_capacity |-> 512, disk_read_buf_capacity |-> 64] }

----------------------------------------------------------------------------
\* Option<T>: None is the empty sequence, Some(x) the one-element sequence.

None == << >>

Some(x) == << x >>

IsSome(o) == o # << >>

Unwrap(o) == o[1]

\* Stands for 2^64 where a usize wraps: larger than every buffer of the model.
USIZE_WRAP == 2^30

\* usize subtraction in a build without overflow checks.
wrapping_sub(x, y) == IF x >= y THEN x - y ELSE x - y + USIZE_WRAP

----------------------------------------------------------------------------
\* Event codec (event module): header of 32 bytes, payload, zero padding to 8.

HEADER_SIZE == 32

\* The log's address: 16 bytes minted at construction.
ORIGIN == [k \in 1..16 |-> 160 + k]

RECURSIVE le_bytes(_, _)
\* n as k little-endian bytes
le_bytes(n, k) ==
    IF k = 0 THEN << >> ELSE << n % 256 >> \o le_bytes(n \div 256, k - 1)

RECURSIVE le_value(_)
\* the little-endian value of bytes, saturating at USIZE_WRAP
le_value(bytes) ==
    IF bytes = << >> THEN 0
    ELSE LET hi == le_value(Tail(bytes))
         IN  IF hi >= 2^20 THEN USIZE_WRAP ELSE Head(bytes) + 256 * hi

round_up_8(n) == ((n + 7) \div 8) * 8

\* Event::on_disk_size
on_disk_size(e) == round_up_8(HEADER_SIZE + Len(e.payload))

\* The bytes event::append writes for e.
event_bytes(e) ==
    LET body == e.id.origin \o le_bytes(e.id.logical_pos, 8)
                  \o le_bytes(Len(e.payload), 8) \o e.payload
    IN  body \o [k \in 1..(on_disk_size(e) - Len(body)) |-> 0]

\* event::read(bytes, offset): the event whose header begins at offset.
event_read(bytes, offset) ==
    LET decode(payload_len) ==
            IF offset + HEADER_SIZE + payload_len > Len(bytes) THEN None
            ELSE Some([id |-> [origin |-> SubSeq(bytes, offset + 1, offset + 16),
                               logical_pos |->
                                   le_value(SubSeq(bytes, offset + 17, offset + 24))],
                       payload |-> SubSeq(bytes, offset + HEADER_SIZE + 1,
                                          offset + HEADER_SIZE + payload_len)])
    IN  IF offset + HEADER_SIZE > Len(bytes) THEN None
        ELSE decode(le_value(SubSeq(bytes, offset + 25, offset + 32)))

RECURSIVE view_from(_, _)
\* event::View: the consecutive events of bytes from offset on.
view_from(bytes, offset) ==
    LET step(e) ==
            IF ~IsSome(e) \/ offset + on_disk_size(Unwrap(e)) > Len(bytes)
            THEN << >>
            ELSE << Unwrap(e) >>
                   \o view_from(bytes, offset + on_disk_size(Unwrap(e)))
    IN  step(event_read(bytes, offset))

View(bytes) == view_from(bytes, 0)

----------------------------------------------------------------------------
\* Region (util.rs Segment): a window [pos, end) into a byte buffer.

Region_new(pos, len) == [pos |-> pos, len |-> len, end |-> pos + len]

Region_ZERO == Region_new(0, 0)

lengthen(r, n) == [pos |-> r.pos, len |-> r.len + n, end |-> r.pos + (r.len + n)]

\* Set pos to new_pos, leaving end the same.  len = end - new_pos is a usize
\* subtraction: change_pos_overflows tells when it overflows.
change_pos_overflows(r, new_pos) == new_pos > r.end

change_pos(r, new_pos) ==
    [pos |-> new_pos, len |-> wrapping_sub(r.end, new_pos), end |-> r.end]

Region_end(r) == r.pos + r.len

Region_empty(r) == r.len = 0

\* Region::read: buf[pos..end], or None when out of bounds.
Region_read(r, buf) ==
    IF r.pos > Region_end(r) \/ Region_end(r) > Len(buf) THEN None
    ELSE Some(SubSeq(buf, r.pos + 1, Region_end(r)))

\* Region::write: whether src fits in dest[pos..end].
Region_write_ok(r, dest, src) == Region_end(r) <= Len(dest) /\ r.len = Len(src)

\* Region::write: dest with src copied to dest[pos..end].
Region_write(r, dest, src) ==
    [i \in 1..Len(dest) |->
        IF r.pos < i /\ i <= Region_end(r) THEN src[i - r.pos] ELSE dest[i]]

----------------------------------------------------------------------------
\* ReadCache: [mem, logical_start, a, b].  The operations return the cache
\* they leave and how they ended: "Ok", "WriteErr" or "Panic".

ReadCache_new(capacity) ==
    [mem |-> [i \in 1..capacity |-> 0], logical_start |-> 0,
     a |-> Region_ZERO, b |-> Region_ZERO]

\* ReadCache::extend on segment seg ("a" or "b") of cache rc.
extend(rc, seg, src) ==
    LET write(extension) ==
            IF Region_write_ok(extension, rc.mem, src)
            THEN [rc |-> [rc EXCEPT !.mem = Region_write(extension, rc.mem, src),
                                    ![seg] = lengthen(rc[seg], Len(src))],
                  result |-> "Ok"]
            ELSE [rc |-> rc, result |-> "WriteErr"]
    IN  write(Region_new(rc[seg].len, Len(src)))

overlapping_regions(rc) == Region_end(rc.b) > rc.a.pos

read_a(rc) == Region_read(rc.a, rc.mem)

read_b(rc) == Region_read(rc.b, rc.mem)

\* ReadCache::set_logical_start; the caller has checked first_event_found.
first_event_found(es) == IsSome(event_read(es, 0))

set_logical_start(rc, es) ==
    [rc EXCEPT !.logical_start = Unwrap(event_read(es, 0)).id.logical_pos]

RECURSIVE scan_offsets(_, _)
\* the running sums of the on-disk sizes of events, starting from offset
scan_offsets(events, offset) ==
    IF events = << >> THEN << >>
    ELSE LET next == offset + on_disk_size(Head(events))
         IN  << next >> \o scan_offsets(Tail(events), next)

\* A new_a_pos that evicts the first event of A only, however far B will
\* reach.
new_a_pos_first_event(rc, es) ==
    LET first(offsets) == IF offsets = << >> THEN None ELSE Some(offsets[1])
    IN  first(scan_offsets(View(Unwrap(read_a(rc))), 0))

\* ReadCache::new_a_pos: the first cumulative offset within A past new_b_end.
new_a_pos(rc, es) ==
    LET find(offsets, new_b_end) ==
            LET found == { k \in 1..Len(offsets) : offsets[k] > new_b_end }
            IN  IF found = {} THEN None
                ELSE Some(offsets[CHOOSE k \in found : \A j \in found : k <= j])
    IN  find(scan_offsets(View(Unwrap(read_a(rc))), 0),
             Region_end(rc.b) + Len(es))

\* ReadCache::wrap_around, the arm where new_a_pos found nothing: B is now A.
promote_b(rc, es) ==
    LET erased(promoted) == [promoted EXCEPT !.a = Region_ZERO]
        retry(promoted, first) ==
            IF first.result = "Ok" THEN first
            ELSE IF ~first_event_found(es)
                 THEN [rc |-> erased(promoted), result |-> "Panic"]
                 ELSE extend(set_logical_start(erased(promoted), es), "a", es)
        try(promoted) == retry(promoted, extend(promoted, "a", es))
    IN  try([rc EXCEPT !.a = Region_new(0, Region_end(rc.b)), !.b = Region_ZERO])

\* ReadCache::wrap_around
wrap_around(rc, es) ==
    LET arm(p) ==
            IF IsSome(p)
            THEN \* Truncate A and write to B
                 IF overflow_checks /\ change_pos_overflows(rc.a, Unwrap(p))
                 THEN [rc |-> rc, result |-> "Panic"]
                 ELSE extend([rc EXCEPT !.a = change_pos(rc.a, Unwrap(p))], "b", es)
            ELSE promote_b(rc, es)
    IN  IF ~IsSome(read_a(rc)) THEN [rc |-> rc, result |-> "Panic"]
        ELSE arm(new_a_pos(rc, es))

\* ReadCache::update, the match on (a.empty(), b.empty()).
update_match(rc, es) ==
    LET or_wrap(first) == IF first.result = "Ok" THEN first ELSE wrap_around(rc, es)
    IN  CASE Region_empty(rc.a) /\ Region_empty(rc.b) ->
               IF ~first_event_found(es) THEN [rc |-> rc, result |-> "Panic"]
               ELSE extend(set_logical_start(rc, es), "a", es)
          [] ~Region_empty(rc.a) /\ Region_empty(rc.b) ->
               or_wrap(extend(rc, "a", es))
          [] OTHER -> wrap_around(rc, es)

\* ReadCache::update, with its two post-condition assertions.
ReadCache_update(rc, es) ==
    LET post(r) ==
            IF r.result = "Panic" THEN r
            ELSE IF r.rc.b.pos # 0 \/ overlapping_regions(r.rc)
                 THEN [rc |-> r.rc, result |-> "Panic"]
                 ELSE r
    IN  post(update_match(rc, es))

\* ReadCache::read: [panic, event].  relative_byte_pos - a_bytes.len() is a
\* usize subtraction: it panics under overflow checks and wraps without.
ReadCache_read(rc, relative_byte_pos) ==
    LET in_b(a_bytes) ==
            IF \/ overflow_checks /\ relative_byte_pos < Len(a_bytes)
               \/ ~IsSome(read_b(rc))
            THEN [panic |-> TRUE, event |-> None]
            ELSE [panic |-> FALSE,
                  event |-> event_read(Unwrap(read_b(rc)),
                               wrapping_sub(relative_byte_pos, Len(a_bytes)))]
        in_a(a_bytes, e) ==
            IF IsSome(e) THEN [panic |-> FALSE, event |-> e] ELSE in_b(a_bytes)
    IN  IF ~IsSome(read_a(rc)) THEN [panic |-> TRUE, event |-> None]
        ELSE in_a(Unwrap(read_a(rc)),
                  event_read(Unwrap(read_a(rc)), relative_byte_pos))

----------------------------------------------------------------------------
\* FixVec (util.rs): the live elements as a sequence, the capacity beside it.

check_capacity(capacity, new_len) == capacity >= new_len

\* An extend_from_slice that copies the part of other that fits before it
\* reports the overflow.
extend_from_slice_truncating(vec, capacity, other) ==
    IF check_capacity(capacity, Len(vec) + Len(other))
    THEN [vec |-> vec \o other, ok |-> TRUE]
    ELSE [vec |-> vec \o SubSeq(other, 1, capacity - Len(vec)), ok |-> FALSE]

\* FixVec::extend_from_slice: [vec, ok]; unchanged on overflow.
extend_from_slice(vec, capacity, other) ==
    IF check_capacity(capacity, Len(vec) + Len(other))
    THEN [vec |-> vec \o other, ok |-> TRUE]
    ELSE [vec |-> vec, ok |-> FALSE]

\* FixVec::push: [vec, ok]
push(vec, capacity, value) ==
    IF check_capacity(capacity, Len(vec) + 1)
    THEN [vec |-> Append(vec, value), ok |-> TRUE]
    ELSE [vec |-> vec, ok |-> FALSE]

RECURSIVE FixVec_extend(_, _, _)
\* FixVec::extend(iter): push the elements one by one, returning at the first
\* push that overflows.
FixVec_extend(vec, capacity, iter) ==
    IF iter = << >> THEN [vec |-> vec, ok |-> TRUE]
    ELSE IF ~push(vec, capacity, Head(iter)).ok THEN [vec |-> vec, ok |-> FALSE]
    ELSE FixVec_extend(push(vec, capacity, Head(iter)).vec, capacity, Tail(iter))

\* FixVec::resize(new_len, value): [vec, ok]
resize(vec, capacity, new_len, value) ==
    IF ~check_capacity(capacity, new_len) THEN [vec |-> vec, ok |-> FALSE]
    ELSE [vec |-> [k \in 1..new_len |-> IF k <= Len(vec) THEN vec[k] ELSE value],
          ok |-> TRUE]

\* FixVec::clear
clear(vec) == << >>

RECURSIVE push_offsets_not_lagging(_, _, _, _)
\* The loop of Log::commit with the offset advanced before it is pushed.
push_offsets_not_lagging(vec, capacity, events, disk_offset) ==
    IF events = << >> THEN [vec |-> vec, ok |-> TRUE]
    ELSE IF ~check_capacity(capacity, Len(vec) + 1) THEN [vec |-> vec, ok |-> FALSE]
    ELSE push_offsets_not_lagging(
             Append(vec, disk_offset + on_disk_size(Head(events))), capacity,
             Tail(events), disk_offset + on_disk_size(Head(events)))

RECURSIVE push_offsets(_, _, _, _)
\* The loop of Log::commit over the events of the write buffer: push the
\* running disk offset for each event, stopping at the first overflow.
push_offsets(vec, capacity, events, disk_offset) ==
    IF events = << >> THEN [vec |-> vec, ok |-> TRUE]
    ELSE IF ~check_capacity(capacity, Len(vec) + 1) THEN [vec |-> vec, ok |-> FALSE]
    ELSE push_offsets(Append(vec, disk_offset), capacity, Tail(events),
                      disk_offset + on_disk_size(Head(events)))

----------------------------------------------------------------------------
\* Storage adapter (sim AppendOnlyMemory): append-only bytes, positional read.

Storage_append(st, data) == st \o data

Storage_read_ok(st, len, offset) == offset + len <= Len(st)

Storage_read(st, len, offset) == SubSeq(st, offset + 1, offset + len)

----------------------------------------------------------------------------
\* util::CircBuf (src/util.rs).  buf is the boxed slice, one element per slot;
\* a slot never written holds UNINIT, which is no item.

UNINIT == "uninit"

\* CircBuf::new(capacity)
CircBuf_new(capacity) ==
    [buf |-> [k \in 1..capacity |-> UNINIT], len |-> 0, write_idx |-> 0]

\* CircBuf::capacity
CircBuf_capacity(cb) == Len(cb.buf)

\* core::cmp::min
cmp_min(a, b) == IF a <= b THEN a ELSE b

\* CircBuf::push(item), for a capacity of at least 1.
CircBuf_push(cb, item) ==
    [buf |-> [cb.buf EXCEPT ![cb.write_idx + 1] = item],
     write_idx |-> (cb.write_idx + 1) % CircBuf_capacity(cb),
     len |-> cmp_min(cb.len + 1, CircBuf_capacity(cb))]

\* A get that does not start from write_idx.
CircBuf_get_unrotated(cb, index) ==
    IF cb.len = 0 THEN None
    ELSE LET i == index % cb.len
         IN  IF cb.len > i THEN Some(cb.buf[i + 1]) ELSE None

\* CircBuf::get(index)
CircBuf_get(cb, index) ==
    IF cb.len = 0 THEN None
    ELSE LET i == ((index + cb.write_idx) % USIZE_WRAP) % cb.len
         IN  IF cb.len > i THEN Some(cb.buf[i + 1]) ELSE None

RECURSIVE CircBufIterator_from(_, _)
\* The items CircBufIterator::next yields from index on, until it returns None.
CircBufIterator_from(cb, index) ==
    IF index < cb.len
    THEN LET yield(item) ==
                 IF IsSome(item)
                 THEN << Unwrap(item) >> \o CircBufIterator_from(cb, index + 1)
                 ELSE << >>
         IN  yield(CircBuf_get(cb, index))
    ELSE << >>

\* CircBuf::iter(), collected.
CircBuf_iter(cb) == CircBufIterator_from(cb, 0)

----------------------------------------------------------------------------
\* Log

Init ==
    /\ config \in Configs
    /\ overflow_checks \in BOOLEAN
    /\ storage = << >>
    /\ byte_len = 0
    /\ read_cache = ReadCache_new(config.read_cache_capacity)
    /\ key_index = << >>
    /\ txn_write_buf = << >>
    /\ disk_read_buf = << >>
    /\ res = "New"
    /\ n_enqueue = 0
    /\ n_append = 0
    /\ staged = << >>
    /\ committed = << >>
    /\ first_failure = "None"
    /\ circ_buf = CircBuf_new(0)
    /\ pushed = << >>

\* A panic ends the process.
Alive == res # "Panic"

\* The event Log::enqueue builds for payload.
enqueue_event(payload) ==
    [id |-> [origin |-> ORIGIN, logical_pos |-> Len(key_index)], payload |-> payload]

\* An enqueue that also records the byte offset of the event in key_index.
Enqueue_indexing(payload) ==
    /\ Alive
    /\ n_enqueue < MaxEnqueues
    /\ \E r \in { extend_from_slice(txn_write_buf, config.txn_write_buf_capacity,
                                    event_bytes(enqueue_event(payload))) } :
           /\ txn_write_buf' = r.vec
           /\ res' = IF r.ok THEN "EnqueueOk" ELSE "EnqueueErr"
           /\ staged' = IF r.ok THEN Append(staged, payload) ELSE staged
    /\ key_index' = Append(key_index, byte_len + Len(txn_write_buf))
    /\ n_enqueue' = n_enqueue + 1
    /\ UNCHANGED <<circ, config, overflow_checks, storage, byte_len, read_cache,
                   disk_read_buf, n_append, committed, first_failure>>

\* Log::enqueue(payload)
Enqueue(payload) ==
    /\ Alive
    /\ n_enqueue < MaxEnqueues
    /\ \E r \in { extend_from_slice(txn_write_buf, config.txn_write_buf_capacity,
                                    event_bytes(enqueue_event(payload))) } :
           /\ txn_write_buf' = r.vec
           /\ res' = IF r.ok THEN "EnqueueOk" ELSE "EnqueueErr"
           /\ staged' = IF r.ok THEN Append(staged, payload) ELSE staged
    /\ n_enqueue' = n_enqueue + 1
    /\ UNCHANGED <<circ, config, overflow_checks, storage, byte_len, read_cache,
                   key_index, disk_read_buf, n_append, committed,
                   first_failure>>

\* Log::commit after the storage append reported bytes_flushed bytes written:
\* what it returns and the read cache, key index, byte length and write
\* buffer it leaves.
commit_with(bytes_flushed) ==
    LET outcome(u, k) ==
            IF u.result = "Panic"
            THEN [res |-> "Panic", read_cache |-> u.rc, key_index |-> key_index,
                  byte_len |-> byte_len, txn_write_buf |-> txn_write_buf]
            ELSE IF u.result = "WriteErr"
            THEN [res |-> "CommitErrReadCache", read_cache |-> u.rc,
                  key_index |-> key_index, byte_len |-> byte_len,
                  txn_write_buf |-> txn_write_buf]
            ELSE IF ~k.ok
            THEN [res |-> "CommitErrKeyIndex", read_cache |-> u.rc,
                  key_index |-> k.vec, byte_len |-> byte_len,
                  txn_write_buf |-> txn_write_buf]
            ELSE IF (byte_len + bytes_flushed) % 8 # 0
            THEN [res |-> "Panic", read_cache |-> u.rc, key_index |-> k.vec,
                  byte_len |-> byte_len + bytes_flushed,
                  txn_write_buf |-> txn_write_buf]
            ELSE [res |-> "CommitOk", read_cache |-> u.rc, key_index |-> k.vec,
                  byte_len |-> byte_len + bytes_flushed, txn_write_buf |-> << >>]
    IN  outcome(ReadCache_update(read_cache, txn_write_buf),
                push_offsets(key_index, config.key_index_capacity,
                             View(txn_write_buf), byte_len))

\* A commit whose byte_len is never advanced.
commit_outcome_not_advanced == commit_with(0)

\* A commit whose storage append reports one byte fewer than the write buffer
\* holds.
commit_outcome_short == commit_with(Len(txn_write_buf) - 1)

\* A commit that clears the write buffer also when the read cache or the key
\* index rejects the batch.
commit_outcome_clearing ==
    LET cleared(o) ==
            IF o.res \in { "CommitErrReadCache", "CommitErrKeyIndex" }
            THEN [o EXCEPT !.txn_write_buf = << >>]
            ELSE o
    IN  cleared(commit_with(Len(txn_write_buf)))

\* Log::commit after a successful storage append, which reports the length of
\* the write buffer.
commit_outcome == commit_with(Len(txn_write_buf))

\* Log::commit, the storage append succeeding (or not being reached).
Commit ==
    /\ Alive
    /\ IF byte_len % 8 # 0
       THEN /\ res' = "Panic"
            /\ UNCHANGED <<storage, byte_len, read_cache, key_index,
                           txn_write_buf, n_append, staged, committed, first_failure>>
       ELSE IF HEADER_SIZE > Len(txn_write_buf)
       THEN /\ res' = "CommitErrTxnWriteBufHasNoEvents"
            /\ UNCHANGED <<storage, byte_len, read_cache, key_index,
                           txn_write_buf, n_append, staged, committed, first_failure>>
       ELSE /\ n_append < MaxAppends
            /\ n_append' = n_append + 1
            /\ storage' = Storage_append(storage, txn_write_buf)
            /\ \E o \in { commit_outcome } :
                   /\ res' = o.res
                   /\ read_cache' = o.read_cache
                   /\ key_index' = o.key_index
                   /\ byte_len' = o.byte_len
                   /\ txn_write_buf' = o.txn_write_buf
                   /\ staged' = IF o.res = "CommitOk" THEN << >> ELSE staged
                   /\ committed' = IF o.res = "CommitOk"
                                   THEN committed \o staged ELSE committed
                   /\ first_failure' =
                          IF first_failure # "None" THEN first_failure
                          ELSE IF o.res = "CommitErrReadCache" THEN "ReadCache"
                          ELSE IF o.res = "CommitErrKeyIndex" THEN "KeyIndex"
                          ELSE "None"
    /\ UNCHANGED <<circ, config, overflow_checks, disk_read_buf, n_enqueue>>

\* A commit that returns Disk after it has copied the batch into the read
\* cache.
CommitDiskFails_cache_first ==
    /\ Alive
    /\ byte_len % 8 = 0
    /\ HEADER_SIZE <= Len(txn_write_buf)
    /\ res' = "CommitErrDisk"
    /\ read_cache' = ReadCache_update(read_cache, txn_write_buf).rc
    /\ UNCHANGED <<circ, config, overflow_checks, storage, byte_len, key_index,
                   txn_write_buf, disk_read_buf, n_enqueue, n_append,
                   staged, committed, first_failure>>

\* Log::commit, the storage append failing: CommitErr::Disk.
CommitDiskFails ==
    /\ Alive
    /\ byte_len % 8 = 0
    /\ HEADER_SIZE <= Len(txn_write_buf)
    /\ res' = "CommitErrDisk"
    /\ UNCHANGED <<circ, config, overflow_checks, storage, byte_len, read_cache,
                   key_index, txn_write_buf, disk_read_buf, n_enqueue, n_append,
                   staged, committed, first_failure>>

\* The disk arm of Log::read handing the storage adapter the offset of the
\* next event instead of byte_pos.
read_from_disk_at_next(logical_pos, byte_pos) ==
    LET miss == [r |-> "None", cache_hit |-> FALSE, event |-> None,
                 disk_read_buf |-> disk_read_buf]
        panic == [r |-> "Panic", cache_hit |-> FALSE, event |-> None,
                  disk_read_buf |-> disk_read_buf]
        decoded(buf, e) ==
            IF IsSome(e)
            THEN [r |-> "Some", cache_hit |-> FALSE, event |-> e,
                  disk_read_buf |-> buf]
            ELSE [panic EXCEPT !.disk_read_buf = buf]
        fetched(buf) == decoded(buf, event_read(buf, 0))
        sized(next_byte_pos) ==
            IF next_byte_pos < byte_pos THEN panic
            ELSE IF ~check_capacity(config.disk_read_buf_capacity,
                                    next_byte_pos - byte_pos)
            THEN panic
            ELSE IF ~Storage_read_ok(storage, next_byte_pos - byte_pos, next_byte_pos)
            THEN [panic EXCEPT !.disk_read_buf =
                                   [k \in 1..(next_byte_pos - byte_pos) |-> 0]]
            ELSE fetched(Storage_read(storage, next_byte_pos - byte_pos, next_byte_pos))
    IN  IF logical_pos + 1 >= Len(key_index) THEN miss
        ELSE sized(key_index[logical_pos + 2])

\* Log::read, the disk arm: the event at byte_pos is read from storage into
\* disk_read_buf, resized to the distance to the next index entry.
read_from_disk(logical_pos, byte_pos) ==
    LET miss == [r |-> "None", cache_hit |-> FALSE, event |-> None,
                 disk_read_buf |-> disk_read_buf]
        panic == [r |-> "Panic", cache_hit |-> FALSE, event |-> None,
                  disk_read_buf |-> disk_read_buf]
        decoded(buf, e) ==
            IF IsSome(e)
            THEN [r |-> "Some", cache_hit |-> FALSE, event |-> e,
                  disk_read_buf |-> buf]
            ELSE [panic EXCEPT !.disk_read_buf = buf]
        fetched(buf) == decoded(buf, event_read(buf, 0))
        sized(next_byte_pos) ==
            IF next_byte_pos < byte_pos THEN panic
            ELSE IF ~check_capacity(config.disk_read_buf_capacity,
                                    next_byte_pos - byte_pos)
            THEN panic
            ELSE IF ~Storage_read_ok(storage, next_byte_pos - byte_pos, byte_pos)
            THEN [panic EXCEPT !.disk_read_buf =
                                   [k \in 1..(next_byte_pos - byte_pos) |-> 0]]
            ELSE fetched(Storage_read(storage, next_byte_pos - byte_pos, byte_pos))
    IN  IF logical_pos + 1 >= Len(key_index) THEN miss
        ELSE sized(key_index[logical_pos + 2])

\* Log::read, the cache arm.
read_from_cache(relative_byte_pos) ==
    LET hit(c) ==
            IF c.panic
            THEN [r |-> "Panic", cache_hit |-> FALSE, event |-> None,
                  disk_read_buf |-> disk_read_buf]
            ELSE IF IsSome(c.event)
            THEN [r |-> "Some", cache_hit |-> TRUE, event |-> c.event,
                  disk_read_buf |-> disk_read_buf]
            ELSE [r |-> "None", cache_hit |-> FALSE, event |-> None,
                  disk_read_buf |-> disk_read_buf]
    IN  hit(ReadCache_read(read_cache, relative_byte_pos))

\* Log::read(logical_pos): [r, cache_hit, event, disk_read_buf] with r one of
\* "Some", "None", "Panic" and disk_read_buf the buffer the call leaves.
Log_read(logical_pos) ==
    LET arms(byte_start, byte_pos) ==
            IF byte_pos >= byte_start
            THEN read_from_cache(byte_pos - byte_start)
            ELSE read_from_disk(logical_pos, byte_pos)
    IN  IF read_cache.logical_start >= Len(key_index)
        THEN [r |-> "Panic", cache_hit |-> FALSE, event |-> None,
              disk_read_buf |-> disk_read_buf]
        ELSE IF logical_pos >= Len(key_index)
        THEN [r |-> "None", cache_hit |-> FALSE, event |-> None,
              disk_read_buf |-> disk_read_buf]
        ELSE arms(key_index[read_cache.logical_start + 1],
                  key_index[logical_pos + 1])

\* The logical positions a caller reads.
Positions == 0..MaxEnqueues

\* Log::read(logical_pos)
Read(logical_pos) ==
    /\ Alive
    /\ \E rd \in { Log_read(logical_pos) } :
           /\ res' = IF rd.r = "Panic" THEN "Panic" ELSE res
           /\ disk_read_buf' = rd.disk_read_buf
    /\ UNCHANGED <<circ, config, overflow_checks, storage, byte_len, read_cache,
                   key_index, txn_write_buf, n_enqueue, n_append,
                   staged, committed, first_failure>>

Next ==
    \/ \E payload \in Payloads : Enqueue(payload)
    \/ Commit
    \/ CommitDiskFails
    \/ \E logical_pos \in Positions : Read(logical_pos)

Spec == Init /\ [][Next]_vars


----------------------------------------------------------------------------
\* ReadCache on its own: the cache of a log (the variable read_cache) under
\* the updates a sequence of single-event commits makes.  committed holds the
\* payloads of the events passed so far, so the next event's logical position is
\* its length; res is what the last update returned.

\* A payload of 50 bytes (on-disk size 88).
LONG == [k \in 1..50 |-> 9]

\* The payloads of the events passed to the cache: on-disk sizes 40, 64, 88.
CachePayloads == { <<7>>, LAW, LONG }

\* The cache capacities: too small for the 88-byte event, room for exactly
\* three 40-byte events, and room for a 64-byte and an 88-byte event but not for
\* a 40-byte one beside them.
CacheConfigs ==
    { [read_cache_capacity |-> c, key_index_capacity |-> 65536,
       txn_write_buf_capacity |-> 512, disk_read_buf_capacity |-> 256] :
      c \in { 80, 120, 160 } }

\* ReadCache::new(capacity)
CacheInit ==
    /\ config \in CacheConfigs
    /\ overflow_checks \in BOOLEAN
    /\ storage = << >>
    /\ byte_len = 0
    /\ read_cache = ReadCache_new(config.read_cache_capacity)
    /\ key_index = << >>
    /\ txn_write_buf = << >>
    /\ disk_read_buf = << >>
    /\ res = "New"
    /\ n_enqueue = 0
    /\ n_append = 0
    /\ staged = << >>
    /\ committed = << >>
    /\ first_failure = "None"
    /\ circ_buf = CircBuf_new(0)
    /\ pushed = << >>

\* The i-th event passed to the cache (i counted from 0).
cached_event(i) ==
    [id |-> [origin |-> ORIGIN, logical_pos |-> i], payload |-> committed[i + 1]]

\* The bytes of the batch a commit of one event with this payload passes.
update_bytes(payload) ==
    event_bytes([id |-> [origin |-> ORIGIN, logical_pos |-> Len(committed)],
                 payload |-> payload])

\* ReadCache::update(es), es one serialized event.  After an update that
\* returned WriteErr the log keeps its write buffer, so no single event follows.
CacheUpdate(payload) ==
    /\ Alive
    /\ res # "UpdateErr"
    /\ n_append < MaxUpdates
    /\ \E r \in { ReadCache_update(read_cache, update_bytes(payload)) } :
           /\ read_cache' = r.rc
           /\ res' = IF r.result = "Panic" THEN "Panic"
                     ELSE IF r.result = "Ok" THEN "UpdateOk" ELSE "UpdateErr"
    /\ committed' = Append(committed, payload)
    /\ n_append' = n_append + 1
    /\ UNCHANGED <<circ, config, overflow_checks, storage, byte_len, key_index,
                   txn_write_buf, disk_read_buf, n_enqueue, staged,
                   first_failure>>

CacheNext == \E payload \in CachePayloads : CacheUpdate(payload)

CacheSpec == CacheInit /\ [][CacheNext]_vars

----------------------------------------------------------------------------
\* FixVec on its own: a FixVec<u8> (the variable txn_write_buf, of capacity
\* config.txn_write_buf_capacity) under its growth operations.  res is what
\* the last operation returned.

\* The capacities a FixVec is constructed with.
FixVecConfigs ==
    { [read_cache_capacity |-> 0, key_index_capacity |-> 0,
       txn_write_buf_capacity |-> c, disk_read_buf_capacity |-> 0] : c \in 2..3 }

\* The elements pushed.
Elems == { 1, 2 }

\* The slices and iterators a FixVec is extended with.
Slices == { << >> } \cup { <<x>> : x \in Elems }
            \cup { <<x, y>> : x \in Elems, y \in Elems }
            \cup { <<x, x, y>> : x \in Elems, y \in Elems }

\* FixVec::new(capacity)
FixVecInit ==
    /\ config \in FixVecConfigs
    /\ overflow_checks = TRUE
    /\ storage = << >>
    /\ byte_len = 0
    /\ read_cache = ReadCache_new(config.read_cache_capacity)
    /\ key_index = << >>
    /\ txn_write_buf = << >>
    /\ disk_read_buf = << >>
    /\ res = "New"
    /\ n_enqueue = 0
    /\ n_append = 0
    /\ staged = << >>
    /\ committed = << >>
    /\ first_failure = "None"
    /\ circ_buf = CircBuf_new(0)
    /\ pushed = << >>

\* FixVec::push(value)
FixVec_push(value) ==
    /\ \E r \in { push(txn_write_buf, config.txn_write_buf_capacity, value) } :
           /\ txn_write_buf' = r.vec
           /\ res' = IF r.ok THEN "PushOk" ELSE "PushOverflow"
    /\ UNCHANGED <<circ, config, overflow_checks, storage, byte_len, read_cache,
                   key_index, disk_read_buf, n_enqueue, n_append, staged,
                   committed, first_failure>>

\* FixVec::extend(iter)
FixVec_extend_iter(iter) ==
    /\ \E r \in { FixVec_extend(txn_write_buf, config.txn_write_buf_capacity,
                                 iter) } :
           /\ txn_write_buf' = r.vec
           /\ res' = IF r.ok THEN "ExtendOk" ELSE "ExtendOverflow"
    /\ UNCHANGED <<circ, config, overflow_checks, storage, byte_len, read_cache,
                   key_index, disk_read_buf, n_enqueue, n_append, staged,
                   committed, first_failure>>

\* FixVec::extend_from_slice(other)
FixVec_extend_from_slice(other) ==
    /\ \E r \in { extend_from_slice(txn_write_buf,
                                     config.txn_write_buf_capacity, other) } :
           /\ txn_write_buf' = r.vec
           /\ res' = IF r.ok THEN "ExtendFromSliceOk"
                     ELSE "ExtendFromSliceOverflow"
    /\ UNCHANGED <<circ, config, overflow_checks, storage, byte_len, read_cache,
                   key_index, disk_read_buf, n_enqueue, n_append, staged,
                   committed, first_failure>>

\* FixVec::resize(new_len, value)
FixVec_resize(new_len, value) ==
    /\ \E r \in { resize(txn_write_buf, config.txn_write_buf_capacity,
                          new_len, value) } :
           /\ txn_write_buf' = r.vec
           /\ res' = IF r.ok THEN "ResizeOk" ELSE "ResizeOverflow"
    /\ UNCHANGED <<circ, config, overflow_checks, storage, byte_len, read_cache,
                   key_index, disk_read_buf, n_enqueue, n_append, staged,
                   committed, first_failure>>

\* FixVec::clear()
FixVec_clear ==
    /\ txn_write_buf' = clear(txn_write_buf)
    /\ res' = "Cleared"
    /\ UNCHANGED <<circ, config, overflow_checks, storage, byte_len, read_cache,
                   key_index, disk_read_buf, n_enqueue, n_append, staged,
                   committed, first_failure>>

FixVecNext ==
    \/ \E value \in Elems : FixVec_push(value)
    \/ \E iter \in Slices : FixVec_extend_iter(iter)
    \/ \E other \in Slices : FixVec_extend_from_slice(other)
    \/ \E new_len \in 0..4, value \in Elems : FixVec_resize(new_len, value)
    \/ FixVec_clear

FixVecSpec == FixVecInit /\ [][FixVecNext]_vars

----------------------------------------------------------------------------
\* util::CircBuf on its own: CircBuf::new(capacity) and a sequence of pushes,
\* as in tests::circ_buf.  No log is in use; its variables stay as constructed.

\* The capacities a CircBuf is built with; tests::circ_buf uses 4.
CircCapacities == 1..4

\* The items pushed: the first letters tests::circ_buf pushes.
Items == { "s", "i", "l" }

\* CircBuf::new(capacity)
CircBufInit ==
    /\ config \in { c \in Configs : c.read_cache_capacity = 127
                                    /\ c.disk_read_buf_capacity = 256 }
    /\ overflow_checks = TRUE
    /\ storage = << >>
    /\ byte_len = 0
    /\ read_cache = ReadCache_new(config.read_cache_capacity)
    /\ key_index = << >>
    /\ txn_write_buf = << >>
    /\ disk_read_buf = << >>
    /\ res = "New"
    /\ n_enqueue = 0
    /\ n_append = 0
    /\ staged = << >>
    /\ committed = << >>
    /\ first_failure = "None"
    /\ \E c \in CircCapacities : circ_buf = CircBuf_new(c)
    /\ pushed = << >>

\* CircBuf::push(item)
Push(item) ==
    /\ Len(pushed) < MaxPushes
    /\ circ_buf' = CircBuf_push(circ_buf, item)
    /\ pushed' = Append(pushed, item)
    /\ UNCHANGED <<config, overflow_checks, storage, byte_len, read_cache,
                   key_index, txn_write_buf, disk_read_buf, res, n_enqueue,
                   n_append, staged, committed, first_failure>>

CircBufNext == \E item \in Items : Push(item)

CircBufSpec == CircBufInit /\ [][CircBufNext]_vars

----------------------------------------------------------------------------
\* Definitions the properties share.

\* The event decoded directly from storage at byte offset key_index[i].
stored_event(i) == event_read(storage, key_index[i + 1])

\* What a commit returns.
CommitResults ==
    { "CommitOk", "CommitErrDisk", "CommitErrReadCache",
      "CommitErrTxnWriteBufHasNoEvents", "CommitErrKeyIndex" }

\* A commit has failed after its storage append.
wedged == first_failure # "None"

\* The step is a commit that appended the write buffer to storage.
AppendingCommit == n_append' = n_append + 1

RECURSIVE sum_sizes(_)
\* The sum of the on-disk sizes of the events stored at positions 0..n-1.
sum_sizes(n) ==
    IF n = 0 THEN 0
    ELSE sum_sizes(n - 1)
           + (IF IsSome(stored_event(n - 1))
              THEN on_disk_size(Unwrap(stored_event(n - 1))) ELSE 0)

----------------------------------------------------------------------------
\* C1 (round trip): when every batch was committed successfully, read(i)
\* returns an event whose payload is the i-th payload enqueued, for every
\* committed position i.
C1_RoundTrip ==
    ~wedged =>
        \A i \in 0..(Len(committed) - 1) :
            /\ Log_read(i).r = "Some"
            /\ Unwrap(Log_read(i).event).payload = committed[i + 1]

\* The read of the newest position after a commit: a cache hit with the
\* payload committed last.
NewestReadHits ==
    /\ Len(key_index) > 0
    /\ Len(committed) > 0
    /\ Log_read(Len(key_index) - 1).r = "Some"
    /\ Log_read(Len(key_index) - 1).cache_hit
    /\ Unwrap(Log_read(Len(key_index) - 1).event).payload
         = committed[Len(committed)]

\* C2 (the newest event is a cache hit): a commit that returns Ok for a batch
\* no larger than the read cache leaves the newest logical position readable
\* from the cache, with the payload just committed.
C2_NewestIsCacheHit ==
    [][ ( /\ AppendingCommit
          /\ res' = "CommitOk"
          /\ Len(txn_write_buf) <= config.read_cache_capacity )
        => NewestReadHits' ]_vars

\* C3 (cache miss correctness): a read that reports cache_hit = false returns
\* the payload of the event decoded directly from storage at key_index[i].
C3_CacheMissMatchesStorage ==
    \A i \in Positions :
        (Log_read(i).r = "Some" /\ ~Log_read(i).cache_hit) =>
            /\ i < Len(key_index)
            /\ IsSome(stored_event(i))
            /\ Unwrap(Log_read(i).event).payload = Unwrap(stored_event(i)).payload

\* C3's case: the last read went to disk and returned an event, and two
\* positions are read from disk.
C3_Witness ==
    /\ disk_read_buf # << >>
    /\ \E i \in Positions :
           /\ Log_read(i).r = "Some"
           /\ ~Log_read(i).cache_hit
           /\ Log_read(i).disk_read_buf = disk_read_buf
    /\ Cardinality({ i \in Positions :
                       Log_read(i).r = "Some" /\ ~Log_read(i).cache_hit }) >= 2

\* C4 (the cache never contradicts the index): a read that reports
\* cache_hit = true returns the event stored at byte offset key_index[i].
C4_CacheHitMatchesIndex ==
    \A i \in Positions :
        (Log_read(i).r = "Some" /\ Log_read(i).cache_hit) =>
            /\ i < Len(key_index)
            /\ Log_read(i).event = stored_event(i)

\* C5 (cache coverage is an integer range): after a commit that returned Ok,
\* the positions whose cache lookup in Log::read succeeds are exactly
\* logical_start .. n-1, n the length of the key index.
C5_CoverageIsRange ==
    res = "CommitOk" =>
        { i \in Positions : Log_read(i).cache_hit }
          = { i \in Positions :
                read_cache.logical_start <= i /\ i < Len(key_index) }

\* C6 (index monotonicity): key_index starts at 0, is strictly increasing, and
\* consecutive entries differ by the on-disk size of the event stored at the
\* first of them.
C6_IndexMonotonic ==
    /\ Len(key_index) > 0 => key_index[1] = 0
    /\ \A i \in 0..(Len(key_index) - 2) :
           /\ key_index[i + 1] < key_index[i + 2]
           /\ IsSome(stored_event(i))
           /\ key_index[i + 2] - key_index[i + 1]
                = on_disk_size(Unwrap(stored_event(i)))

\* C6's case: three events of two different on-disk sizes are indexed, one
\* commit having indexed two of them.
C6_Witness ==
    /\ Len(key_index) = 3
    /\ n_append = 2
    /\ key_index[2] - key_index[1] # key_index[3] - key_index[2]

\* C7 as claimed, leaving aside the logs on which a commit has returned
\* ReadCache (C10): byte_len equals the storage length and the sum of the
\* on-disk sizes of the indexed events, whatever else the commits returned.
C7_ByteLenIsStorageLen ==
    first_failure # "ReadCache" =>
        /\ byte_len = Len(storage)
        /\ byte_len = sum_sizes(Len(key_index))

\* C7 as amended: byte_len equals the storage length and the sum of the on-disk
\* sizes of the indexed events as long as no commit has returned ReadCache or
\* KeyIndex; once one has, byte_len is less than the storage length.
C7_ByteLenUnlessFailedAfterAppend ==
    /\ ~wedged => /\ byte_len = Len(storage)
                  /\ byte_len = sum_sizes(Len(key_index))
    /\ wedged => byte_len < Len(storage)

\* C7's case: two commits returned Ok, the second of a batch of two events.
C7_Witness ==
    /\ res = "CommitOk"
    /\ n_append = 2
    /\ Len(key_index) = 3
    /\ byte_len = Len(storage)

\* C8 (commit is atomic for the bookkeeping): a commit either indexes every
\* staged event, advances byte_len by the batch and empties the write buffer,
\* or leaves key_index, byte_len and the write buffer as they were.
C8_CommitAtomic ==
    [][ res' \in CommitResults =>
          \/ /\ Len(key_index') = Len(key_index) + Len(View(txn_write_buf))
             /\ byte_len' = byte_len + Len(txn_write_buf)
             /\ txn_write_buf' = << >>
          \/ /\ key_index' = key_index
             /\ byte_len' = byte_len
             /\ txn_write_buf' = txn_write_buf ]_vars

\* C9 (every event carries its logical position): the event stored at
\* key_index[i] has id.logical_pos = i.
C9_LogicalPosIsIndex ==
    \A i \in 0..(Len(key_index) - 1) :
        /\ IsSome(stored_event(i))
        /\ Unwrap(stored_event(i)).id.logical_pos = i

\* No position is read from the cache.
NoCacheHits == \A i \in Positions : ~Log_read(i).cache_hit

\* The read cache holds nothing.
CacheEmpty == Region_empty(read_cache.a) /\ Region_empty(read_cache.b)

\* C10 (an undersized read cache never fails a commit): a commit of a batch
\* larger than the read cache returns Ok, advances the index and byte_len,
\* leaves the cache empty, and no read is a cache hit afterwards.
C10_UndersizedCacheCommits ==
    [][ ( /\ AppendingCommit
          /\ Len(txn_write_buf) > config.read_cache_capacity )
        => /\ res' = "CommitOk"
           /\ Len(key_index') > Len(key_index)
           /\ byte_len' = byte_len + Len(txn_write_buf)
           /\ CacheEmpty'
           /\ NoCacheHits' ]_vars


\* Log::read(logical_pos) takes the disk arm for an event whose on-disk size
\* exceeds the capacity of disk_read_buf.
disk_read_overflows(logical_pos) ==
    /\ read_cache.logical_start < Len(key_index)
    /\ logical_pos + 1 < Len(key_index)
    /\ key_index[logical_pos + 1] < key_index[read_cache.logical_start + 1]
    /\ key_index[logical_pos + 2] - key_index[logical_pos + 1]
         > config.disk_read_buf_capacity

\* C11 (overflow is a returned error, never a panic), for disk_read_buf: a
\* read from disk of an event larger than disk_read_buf does not panic.
C11_OverflowIsAnError ==
    \A i \in Positions : disk_read_overflows(i) => Log_read(i).r # "Panic"

\* C12 (a failed enqueue is a no-op on the batch): an enqueue that returns
\* EnqueueErr leaves txn_write_buf as it was, and a commit that returns Ok adds
\* to key_index one entry per enqueue that returned Ok since the last such
\* commit, the events stored at them carrying those payloads in enqueue order.
C12_FailedEnqueueIsNoOp ==
    [][ /\ (n_enqueue' = n_enqueue + 1 /\ res' = "EnqueueErr")
            => txn_write_buf' = txn_write_buf
        /\ (AppendingCommit /\ res' = "CommitOk")
            => /\ Len(key_index') = Len(key_index) + Len(staged)
               /\ \A k \in 1..Len(staged) :
                      /\ IsSome(event_read(storage', key_index'[Len(key_index) + k]))
                      /\ Unwrap(event_read(storage',
                                           key_index'[Len(key_index) + k])).payload
                           = staged[k] ]_vars

\* C12's case: of three enqueue calls one returned EnqueueErr, and the commit
\* that followed returned Ok and indexed the two others.
C12_Witness ==
    /\ res = "CommitOk"
    /\ n_enqueue = 3
    /\ n_append = 1
    /\ Len(key_index) = 2

\* C13 (a commit that fails before or at the storage append changes nothing
\* in memory): when commit returns TxnWriteBufHasNoEvents or Disk, byte_len,
\* key_index, the read cache and the write buffer are as before the call.
C13_EarlyFailureChangesNothing ==
    [][ res' \in {"CommitErrTxnWriteBufHasNoEvents", "CommitErrDisk"}
        => /\ byte_len' = byte_len
           /\ key_index' = key_index
           /\ read_cache' = read_cache
           /\ txn_write_buf' = txn_write_buf ]_vars

\* C13's case: a commit of a staged batch has returned Disk on a log that
\* holds committed events.
C13_Witness ==
    /\ res = "CommitErrDisk"
    /\ Len(key_index) > 0
    /\ ~Region_empty(read_cache.a)
    /\ Len(txn_write_buf) >= HEADER_SIZE

\* C14 (enqueue changes only the transaction write buffer): an enqueue,
\* whatever it returns, leaves storage, byte_len, key_index, disk_read_buf and
\* the read cache as they were.
C14_EnqueueFrame ==
    [][ n_enqueue' = n_enqueue + 1
        => /\ storage' = storage
           /\ byte_len' = byte_len
           /\ key_index' = key_index
           /\ disk_read_buf' = disk_read_buf
           /\ read_cache' = read_cache ]_vars

\* C14's case: an enqueue has returned Ok on a log with two committed events and
\* both cache segments in use.
C14_Witness ==
    /\ res = "EnqueueOk"
    /\ Len(key_index) = 2
    /\ ~Region_empty(read_cache.b)
    /\ Len(txn_write_buf) >= HEADER_SIZE

\* C15 (byte length alignment): byte_len is a multiple of 8 in every reachable
\* state, so the alignment assertions of commit do not fire.
C15_ByteLenAligned == byte_len % 8 = 0

\* C15's case: three commits of events of three different sizes (40, 64 and 72
\* bytes) have advanced byte_len.
C15_Witness ==
    /\ res = "CommitOk"
    /\ n_append = 3
    /\ byte_len = 176

\* C16 (FixVec growth is all-or-nothing): push, extend_from_slice and extend
\* return Overflow exactly when the resulting length would exceed the capacity,
\* leave the vector as it was when they do, and the length never exceeds the
\* capacity.
C16_GrowthAllOrNothing ==
    [][ /\ Len(txn_write_buf') <= config.txn_write_buf_capacity
        /\ res' \in {"PushOverflow", "ExtendOverflow", "ExtendFromSliceOverflow"}
            => txn_write_buf' = txn_write_buf
        /\ \A value \in Elems :
               FixVec_push(value) =>
                   (res' = "PushOverflow"
                      <=> Len(txn_write_buf) + 1 > config.txn_write_buf_capacity)
        /\ \A other \in Slices :
               /\ FixVec_extend_from_slice(other) =>
                      (res' = "ExtendFromSliceOverflow"
                         <=> Len(txn_write_buf) + Len(other)
                               > config.txn_write_buf_capacity)
               /\ FixVec_extend_iter(other) =>
                      (res' = "ExtendOverflow"
                         <=> Len(txn_write_buf) + Len(other)
                               > config.txn_write_buf_capacity) ]_vars

\* The first event resident in the cache: that at the start of A, or of B when
\* A is empty.
oldest_cached ==
    IF ~Region_empty(read_cache.a) THEN event_read(Unwrap(read_a(read_cache)), 0)
    ELSE event_read(Unwrap(read_b(read_cache)), 0)

\* C17 (logical_start names the oldest cached event): after an update, when the
\* cache is not empty, logical_start is the logical position of the first event
\* resident in A, or in B when A is empty.
C17_LogicalStartIsOldest ==
    (res = "UpdateOk" /\ ~CacheEmpty) =>
        /\ IsSome(oldest_cached)
        /\ read_cache.logical_start = Unwrap(oldest_cached).id.logical_pos

RECURSIVE events_bytes(_, _)
\* The serialized events i .. j-1 passed to the cache, one after the other.
events_bytes(i, j) ==
    IF i >= j THEN << >>
    ELSE event_bytes(cached_event(i)) \o events_bytes(i + 1, j)

\* bytes is a run of whole events passed to the cache.
whole_events(bytes) ==
    \E i \in 0..Len(committed) :
        \E j \in i..Len(committed) : bytes = events_bytes(i, j)

\* C18 (no event is split or truncated in the cache): after an update, A and B
\* each hold a run of whole events, beginning and ending on event boundaries.
C18_SegmentsHoldWholeEvents ==
    res = "UpdateOk" =>
        /\ IsSome(read_a(read_cache))
        /\ whole_events(Unwrap(read_a(read_cache)))
        /\ IsSome(read_b(read_cache))
        /\ whole_events(Unwrap(read_b(read_cache)))

\* ReadCache::update(es) on cache rc goes through wrap_around.
wraps_around(rc, es) ==
    \/ ~Region_empty(rc.b)
    \/ ~Region_empty(rc.a) /\ extend(rc, "a", es).result # "Ok"

\* The step is an update of payload that goes through wrap_around and finds an
\* eviction offset.
EvictingUpdate(payload) ==
    /\ CacheUpdate(payload)
    /\ wraps_around(read_cache, update_bytes(payload))
    /\ IsSome(new_a_pos(read_cache, update_bytes(payload)))

\* C20 (wrap-around eviction moves A's start forward by whole events): when
\* wrap_around finds an eviction offset o, the new A.pos is the old A.pos + o,
\* A.end is unchanged, B is extended by the length of the batch and A.pos does
\* not decrease.
C20_EvictionAdvancesA ==
    [][ \A payload \in CachePayloads :
            EvictingUpdate(payload) =>
                /\ read_cache'.a.pos
                     = read_cache.a.pos
                         + Unwrap(new_a_pos(read_cache, update_bytes(payload)))
                /\ Region_end(read_cache'.a) = Region_end(read_cache.a)
                /\ read_cache'.b.len
                     = read_cache.b.len + Len(update_bytes(payload))
                /\ read_cache'.a.pos >= read_cache.a.pos ]_vars

\* C19 (the two cache segments never overlap): after every update, whatever it
\* returned, B starts at 0 and ends at or before the start of A, A ends within
\* the cache memory, no assertion of update has fired and change_pos has not
\* been given a position past the end of A.
C19_SegmentsNeverOverlap ==
    /\ res # "Panic"
    /\ read_cache.b.pos = 0
    /\ Region_end(read_cache.b) <= read_cache.a.pos
    /\ read_cache.a.pos <= read_cache.a.end
    /\ Region_end(read_cache.a) <= config.read_cache_capacity

\* C19's case: an update has wrapped around and left both segments in use, A
\* starting past the end of B.
C19_Witness ==
    /\ res = "UpdateOk"
    /\ ~Region_empty(read_cache.a)
    /\ ~Region_empty(read_cache.b)
    /\ read_cache.a.pos > 0
    /\ n_append = MaxUpdates

\* The step leaves what the log holds in place: key_index and storage only grow
\* at their ends and byte_len does not decrease.
AppendOnly ==
    /\ Len(key_index') >= Len(key_index)
    /\ SubSeq(key_index', 1, Len(key_index)) = key_index
    /\ byte_len' >= byte_len
    /\ Len(storage') >= Len(storage)
    /\ SubSeq(storage', 1, Len(storage)) = storage

\* C21 (the log is append-only over time): no step shortens key_index or
\* byte_len, changes an index entry or a stored byte, and a position that reads
\* as an event with payload p before a step reads as an event with payload p
\* after it.
C21_AppendOnly ==
    [][ /\ AppendOnly
        /\ res' # "Panic" =>
               \A i \in Positions :
                   Log_read(i).r = "Some" =>
                       /\ Log_read(i)'.r = "Some"
                       /\ Unwrap(Log_read(i)'.event).payload
                            = Unwrap(Log_read(i).event).payload ]_vars

\* The step is a commit: it appended to storage or returned without appending.
CommitStep == AppendingCommit \/ (res' \in CommitResults /\ res' # res)

\* C23 (a commit that fails after the storage append wedges the log): a commit
\* returning ReadCache or KeyIndex leaves the write buffer as it was, and once
\* one has done so every later commit returns an error, each one that reaches
\* storage appending the whole staged buffer again and failing again on the
\* cache or the index.
C23_FailedCommitWedges ==
    [][ /\ (AppendingCommit /\ res' \in { "CommitErrReadCache", "CommitErrKeyIndex" })
            => (txn_write_buf' = txn_write_buf /\ Len(txn_write_buf) >= HEADER_SIZE)
        /\ wedged =>
               /\ wedged'
               /\ CommitStep => res' \in CommitResults \ { "CommitOk" }
               /\ AppendingCommit =>
                      /\ res' \in { "CommitErrReadCache", "CommitErrKeyIndex" }
                      /\ storage' = storage \o txn_write_buf
                      /\ Len(txn_write_buf) >= HEADER_SIZE ]_vars

\* A wedged log was retried after a further enqueue: storage holds, past
\* byte_len, the staged bytes of the failed commit and then those of the retry,
\* which are more.
C23_Witness ==
    /\ wedged
    /\ n_append >= 2
    /\ res \in { "CommitErrReadCache", "CommitErrKeyIndex" }
    /\ Len(storage) > byte_len + Len(txn_write_buf)
    /\ Len(storage) < byte_len + 2 * Len(txn_write_buf)

\* Every buffer of the configuration holds every event the log is given: the
\* read cache and the disk read buffer any one event, the write buffer and the
\* key index all of them.
AdequatelySized ==
    \A p \in Payloads :
        /\ on_disk_size([payload |-> p]) <= config.read_cache_capacity
        /\ on_disk_size([payload |-> p]) <= config.disk_read_buf_capacity
        /\ MaxEnqueues * on_disk_size([payload |-> p]) <= config.txn_write_buf_capacity
        /\ MaxEnqueues <= config.key_index_capacity

\* C24 (Log::read never panics when buffers are adequately sized): in every
\* state of an adequately sized log the index lookup at logical_start is in
\* bounds and no read, at any position, panics.
C24_ReadNeverPanics ==
    AdequatelySized =>
        /\ read_cache.logical_start < Len(key_index)
        /\ \A i \in Positions : Log_read(i).r # "Panic"

\* The last n items pushed, oldest first.
last_pushed(n) == SubSeq(pushed, Len(pushed) - n + 1, Len(pushed))

\* C22 (CircBuf keeps the most recent items in insertion order): after n
\* pushes into a buffer of capacity c >= 1, len is min(n, c), write_idx is
\* n mod c, and iterating yields the last min(n, c) pushed items, oldest first.
C22_KeepsMostRecent ==
    CircBuf_capacity(circ_buf) >= 1 =>
        /\ circ_buf.len = cmp_min(Len(pushed), CircBuf_capacity(circ_buf))
        /\ circ_buf.write_idx = Len(pushed) % CircBuf_capacity(circ_buf)
        /\ CircBuf_iter(circ_buf) = last_pushed(circ_buf.len)

\* The buffer of tests::circ_buf after its pushes: capacity 4, six pushes, the
\* first two overwritten, the oldest surviving item in the middle of buf and
\* differing from the item at the start of buf.
C22_Witness ==
    /\ CircBuf_capacity(circ_buf) = 4
    /\ Len(pushed) = 6
    /\ circ_buf.write_idx = 2
    /\ circ_buf.len = 4
    /\ circ_buf.buf[1] # circ_buf.buf[3]
    /\ CircBuf_iter(circ_buf) = last_pushed(4)

\* The structural part of C21 alone.
StepsAppendOnly == [][AppendOnly]_vars

====
